---- MODULE Spec2Model ----
(***************************************************************************)
(* Model of SupervisedContrastiveTraining.py: the SupervisedContrast       *)
(* object (student/teacher weights, the class-indexed queue of teacher     *)
(* embeddings, the checkpoint files) with its constructor, its public      *)
(* methods and the train() loop.                                           *)
(*                                                                         *)
(* Weights are fixed-point numbers; NaN stands for any non-finite float.   *)
(* A momentum coefficient m is given in tenths (0, 9, 10 for 0, 0.9, 1).   *)
(* A loader is a re-iterable sequence of batches, a batch the sequence of  *)
(* its samples' labels; images are identified by (batch, position).        *)
(***************************************************************************)
EXTENDS Integers, Sequences, FiniteSets, TLC

\* ---------------------------------------------------- program parameters
\* num_classes (60 in the source), instantiated small.
NumClasses == 2
\* samples per batch (the CLI default is 128), instantiated small.
BatchSize == 2
\* num_classes for direct chr_loss calls: class 0 and two non-zero classes.
LossClasses == 3
\* default queue_size of initialize_queue.
QueueSize == 10
\* default m of momentum_synchronize, in tenths.
DefaultM == 9
\* the non-finite float (nan, +-inf), outside the finite weights.
NaN == -1

\* ---------------------------------------------------------------- bounds
\* the most batches one iteration of the loader yields.
MaxBatches == 2
\* total_epoch given to train() (default 100, CLI default 10).
TotalEpoch == 2
\* the largest size argument of a direct enqueue/dequeue/initialize_queue call,
\* and the deepest class slot a direct enqueue call may build.
MaxSize == 2
\* the most rows of y (N1) and of queue_y (N2) in a direct chr_loss call.
MaxLossLen == 2

Labels == 0 .. (NumClasses - 1)
FinVals == {0, 2}
Ms == {0, DefaultM, 10}
\* positions of the backbone parameters: 1 is reached by the forward pass
\* (conv1 .. layer4), 2 is the classifier fc, which student_forward and
\* teacher_forward never call.
ParamIdx == 1 .. 2
ForwardParams == {1}

Min(a, b) == IF a < b THEN a ELSE b

NoFile == << >>
FreshSet == {<<0, 0>>, <<2, 2>>}
CkptSet == {<<2, 0>>, <<NaN, 0>>}
BatchSet == [1 .. BatchSize -> Labels]
LoaderSet == UNION {[1 .. n -> BatchSet] : n \in 0 .. MaxBatches}

NoQueue == [c \in {} |-> << >>]

VARIABLES
    loader,     \* self.loader: the batches of one iteration
    student_pth, teacher_pth,   \* the checkpoint files (NoFile when absent)
    student, teacher,           \* backbone parameter values, by position
    teacher_grad,               \* requires_grad of each teacher parameter
    queue,      \* self.queue: class -> sequence of entries
    pc,         \* position of the program
    err,        \* the exception that ended the run ("none" when none)
    epoch,      \* train: the epoch variable
    it,         \* train: batches the epoch's iterator has yielded
    sp,         \* train: position in the loop body
    x,          \* train: the student embedding of the current batch
    flat,       \* train / get_queue: the last (queue_x, queue_y)
    loss,       \* train: the loss of the current step
    grad,       \* student .grad of each parameter
    steps,      \* training steps completed
    iterBy,     \* who started the loader's most recent iteration
    stepq,      \* the queue at the start of the current training step
    log,        \* the calls the current training step has made, in order
    call,       \* the last direct method call
    saves,      \* train: save_model calls made
    chr,        \* chr_loss: the labels and label_mask of the last call
    student_mlp, teacher_mlp,   \* projection head parameter values
    mlp_grad    \* the .grad of each student_mlp parameter

vars == <<loader, student_pth, teacher_pth, student, teacher, teacher_grad,
          queue, pc, err, epoch, it, sp, x, flat, loss, grad, steps,
          iterBy, stepq, log, call, saves, chr, student_mlp, teacher_mlp,
          mlp_grad>>

trainVars == <<epoch, it, sp, x, flat, loss, grad, steps, stepq, log>>
fileVars == <<student_pth, teacher_pth>>

NoFlat == [x |-> << >>, y |-> << >>]
NoCall == [op |-> "none", arg |-> 0]
NoChr == [y |-> << >>, queue_y |-> << >>, label_mask |-> << >>]
\* the projection heads before lines 27-37 create them.
NoHead == << >>
\* the freshly initialised (student_mlp, teacher_mlp): two independent draws
\* of the random initialisation, which differ.
FreshHeads == {<<(<<0>>), (<<2>>)>>, <<(<<2>>), (<<0>>)>>}

\* ------------------------------------------------- momentum_synchronize
\* the blend with the coefficients of teacher and student exchanged.
BlendSwapped(m, t, s) ==
    IF t = NaN \/ s = NaN THEN NaN ELSE ((10 - m) * t + m * s) \div 10

\* m * t + (1 - m) * s on floats: a non-finite operand gives a non-finite
\* result even under a zero coefficient (0 * nan = nan, 0 * inf = nan).
Blend(m, t, s) ==
    IF t = NaN \/ s = NaN THEN NaN ELSE (m * t + (10 - m) * s) \div 10

\* the update with the argument m ignored in favour of the default.
SyncTeacherDefaultM(m, s, t) ==
    [i \in DOMAIN t |->
        IF i \in DOMAIN s
        THEN (IF t[i] = NaN \/ s[i] = NaN THEN NaN
              ELSE (DefaultM * t[i] + (10 - DefaultM) * s[i]) \div 10)
        ELSE t[i]]

\* zip(student.parameters(), teacher.parameters()): pairs by position.
SyncTeacher(m, s, t) ==
    [i \in DOMAIN t |-> IF i \in DOMAIN s THEN Blend(m, t[i], s[i]) ELSE t[i]]

SyncGrad(s, tg) ==
    [i \in DOMAIN tg |-> IF i \in DOMAIN s THEN FALSE ELSE tg[i]]

\* load_model that finds no file.
LoadNothing(file, cur) == cur

\* ------------------------------------------------------------ load_model
LoadFrom(file, cur) == IF file = NoFile THEN cur ELSE file

\* ------------------------------------------------------------------ Init
\* The two networks have just been created with fresh weights (lines 21-22).
Init ==
    /\ loader \in LoaderSet
    /\ student_pth \in {NoFile} \cup CkptSet
    /\ teacher_pth \in {NoFile} \cup CkptSet
    /\ student \in FreshSet
    /\ teacher \in FreshSet
    /\ teacher_grad = [i \in ParamIdx |-> TRUE]
    /\ queue = NoQueue
    /\ pc = "sync0"
    /\ err = "none"
    /\ epoch = 0 /\ it = 0 /\ sp = 0
    /\ x = << >> /\ flat = NoFlat /\ loss = "none"
    /\ grad = [i \in ParamIdx |-> "none"]
    /\ steps = 0
    /\ iterBy = "none"
    /\ stepq = NoQueue
    /\ log = << >>
    /\ call = NoCall
    /\ saves = 0
    /\ chr = NoChr
    /\ student_mlp = NoHead
    /\ teacher_mlp = NoHead
    /\ mlp_grad = NoHead

\* ----------------------------------------------------------- constructor
\* __init__ line 23: self.momentum_synchronize(m=0)
CtorSync ==
    /\ pc = "sync0"
    /\ teacher' = SyncTeacher(0, student, teacher)
    /\ teacher_grad' = SyncGrad(student, teacher_grad)
    /\ pc' = "load"
    /\ UNCHANGED <<loader, fileVars, student, queue, err, trainVars,
                   iterBy, call, saves, chr, student_mlp, teacher_mlp,
                   mlp_grad>>

\* __init__ line 24: self.load_model()
CtorLoad ==
    /\ pc = "load"
    /\ teacher' = LoadFrom(teacher_pth, teacher)
    /\ student' = LoadFrom(student_pth, student)
    /\ pc' = "heads"
    /\ UNCHANGED <<loader, fileVars, teacher_grad, queue, err, trainVars,
                   iterBy, call, saves, chr, student_mlp, teacher_mlp,
                   mlp_grad>>

\* __init__ lines 27-37: the two projection heads are created.
CtorHeads ==
    /\ pc = "heads"
    /\ \E h \in FreshHeads : student_mlp' = h[1] /\ teacher_mlp' = h[2]
    /\ mlp_grad' = [i \in DOMAIN student_mlp' |-> "none"]
    /\ pc' = "initq"
    /\ UNCHANGED <<loader, fileVars, student, teacher, teacher_grad, queue, err,
                   trainVars, iterBy, call, saves, chr>>

\* ----------------------------------------------------------------- queue
EmptyQueue == [c \in Labels |-> << >>]

\* the mask negated: the positions of the batch not labelled c.
MaskNot(batch, c) ==
    SelectSeq([i \in 1 .. Len(batch) |-> i], LAMBDA i : batch[i] # c)

\* x[mask] with mask = (y == c): the positions of the batch labelled c.
Mask(batch, c) ==
    SelectSeq([i \in 1 .. Len(batch) |-> i], LAMBDA i : batch[i] = c)

\* the entry taken from the batch the training loop is at, where it is at one.
EntryOfCurrent(k, c, te, at) ==
    [b |-> IF it > 0 THEN it ELSE k,
     rows |-> Mask(loader[IF it > 0 THEN it ELSE k], c),
     tw |-> [i \in ForwardParams |-> te[i]], at |-> at]

\* self.teacher_forward(x[mask]) for batch k of the loader and class c: one
\* embedding row per selected sample, computed by the teacher weights te that
\* the forward pass reaches, stamped with the training step at.
Entry(k, c, te, at) ==
    [b |-> k, rows |-> Mask(loader[k], c),
     tw |-> [i \in ForwardParams |-> te[i]], at |-> at]

\* enqueue leaving the loop at step > size: one batch too many.
EnqueueOneMore(q, size, te, at) ==
    [c \in DOMAIN q |->
        q[c] \o [k \in 1 .. Min(size + 1, Len(loader)) |->
                    [b |-> k,
                     rows |-> SelectSeq([i \in 1 .. Len(loader[k]) |-> i],
                                        LAMBDA i : loader[k][i] = c),
                     tw |-> [i \in ForwardParams |-> te[i]], at |-> at]]]

\* enqueue appending only where the mask selects a sample.
EnqueueNonEmpty(q, size, te, at) ==
    [c \in DOMAIN q |->
        q[c] \o SelectSeq([k \in 1 .. Min(size, Len(loader)) |-> Entry(k, c, te, at)],
                          LAMBDA e : e.rows # << >>)]

\* enqueue by insert(0, ...): the new entries go to the front.
EnqueueAtFront(q, size, te, at) ==
    [c \in DOMAIN q |->
        [k \in 1 .. Min(size, Len(loader)) |-> Entry(k, c, te, at)] \o q[c]]

\* enqueue: a new iteration of the loader, left at step >= size.
Enqueue(q, size, te, at) ==
    [c \in DOMAIN q |->
        q[c] \o [k \in 1 .. Min(size, Len(loader)) |-> Entry(k, c, te, at)]]

\* dequeue: for each class in order, size times pop(0); pop(0) of an empty
\* list raises IndexError and leaves what was popped so far popped.
Short(q, size) == {c \in DOMAIN q : Len(q[c]) < size}

\* dequeue that truncates silently.
DequeueNeverFails(q, size) == FALSE

DequeueFails(q, size) == Short(q, size) # {}

FirstShort(q, size) == CHOOSE c \in Short(q, size) : \A d \in Short(q, size) : c <= d

\* dequeue by pop(): the newest entries go.
DequeueNewest(q, size) ==
    [c \in DOMAIN q |-> SubSeq(q[c], 1, Len(q[c]) - size)]

\* dequeue that checks every slot before it pops anything.
DequeueAtomic(q, size) ==
    IF Short(q, size) # {} THEN q
    ELSE [c \in DOMAIN q |-> SubSeq(q[c], size + 1, Len(q[c]))]

Dequeue(q, size) ==
    [c \in DOMAIN q |->
        IF ~DequeueFails(q, size) \/ c < FirstShort(q, size)
        THEN SubSeq(q[c], size + 1, Len(q[c]))
        ELSE IF c = FirstShort(q, size) THEN << >> ELSE q[c]]

\* the rows of one entry: the embedding of image (b, i) under weights tw.
Rows(e) ==
    [r \in 1 .. Len(e.rows) |-> [b |-> e.b, i |-> e.rows[r], tw |-> e.tw, at |-> e.at]]

\* torch.cat(self.queue[i], dim=0)
RECURSIVE CatRows(_)
CatRows(es) ==
    IF es = << >> THEN << >> ELSE Rows(Head(es)) \o CatRows(Tail(es))

\* get_queue: torch.cat of an empty list raises RuntimeError.
GetQueueFails(q) == \E c \in DOMAIN q : q[c] = << >>

RECURSIVE FlatFrom(_, _)
FlatFrom(q, c) ==
    IF c >= NumClasses THEN NoFlat
    ELSE LET now_x == CatRows(q[c])
             rest == FlatFrom(q, c + 1)
         IN [x |-> now_x \o rest.x,
             y |-> [k \in 1 .. Len(now_x) |-> c] \o rest.y]

GetQueue(q) == FlatFrom(q, 0)

\* __init__ line 39: self.initialize_queue() with the default queue_size
CtorInitQueue ==
    /\ pc = "initq"
    /\ queue' = Enqueue(EmptyQueue, QueueSize, teacher, steps)
    /\ iterBy' = "initialize_queue"
    /\ pc' = "ready"
    /\ UNCHANGED <<loader, fileVars, student, teacher, teacher_grad, err,
                   trainVars, call, saves, chr, student_mlp, teacher_mlp,
                   mlp_grad>>

\* ----------------------------------------------------------------- train
\* the teacher synchronized before the queue is rotated.
TrainBodySyncFirst ==
    <<"student_forward", "get_queue", "criterion", "zero_grad", "backward",
      "clip_grad_value_", "step", "momentum_synchronize", "enqueue", "dequeue">>

\* the calls of one training step, in the order of lines 140-154.
TrainBody ==
    <<"student_forward", "get_queue", "criterion", "zero_grad", "backward",
      "clip_grad_value_", "step", "enqueue", "dequeue", "momentum_synchronize">>

At(op) == pc = "body" /\ TrainBody[sp] = op

\* where the run goes after a call of the loop body returns.
Advance(op) ==
    /\ log' = Append(log, op)
    /\ IF sp < Len(TrainBody)
       THEN pc' = "body" /\ sp' = sp + 1
       ELSE pc' = "batch" /\ sp' = 0

RECURSIVE SumSeq(_)
SumSeq(s) == IF s = << >> THEN 0 ELSE Head(s) + SumSeq(Tail(s))

\* y.unsqueeze(1): a column, one row per label.
Unsqueeze1(y) == [i \in 1 .. Len(y) |-> <<y[i]>>]

\* queue_y.unsqueeze(0): a single row.
Unsqueeze0(queue_y) == <<queue_y>>

\* A @ B for a matrix A (rows of length K) and a matrix B of K rows.
MatMul(A, B) ==
    [i \in 1 .. Len(A) |->
        [j \in 1 .. Len(B[1]) |->
            SumSeq([k \in 1 .. Len(B) |-> A[i][k] * B[k][j]])]]

\* the mask as the equality indicator of the two labels.
LabelMaskEq(y, queue_y) ==
    [i \in 1 .. Len(y) |->
        [j \in 1 .. Len(queue_y) |-> IF y[i] = queue_y[j] THEN 1 ELSE 0]]

\* chr_loss line 176: label_mask, N1 x N2.
LabelMask(y, queue_y) == MatMul(Unsqueeze1(y), Unsqueeze0(queue_y))

\* chr_loss: sum(label_mask) with label_mask the outer product of the labels.
MaskSum(y, queue_y) == SumSeq(y) * SumSeq(queue_y)

\* chr_loss with the denominator guarded against zero.
ChrLossGuarded(emb, y, fl) ==
    IF \/ \E i \in DOMAIN emb.sw : emb.sw[i] = NaN
       \/ \E k \in DOMAIN fl.x : \E i \in DOMAIN fl.x[k].tw : fl.x[k].tw[i] = NaN
    THEN "nan" ELSE "finite"

\* chr_loss: non-finite when the denominator is zero or an operand is.
ChrLoss(emb, y, fl) ==
    IF \/ MaskSum(y, fl.y) = 0
       \/ \E i \in DOMAIN emb.sw : emb.sw[i] = NaN
       \/ \E k \in DOMAIN fl.x : \E i \in DOMAIN fl.x[k].tw : fl.x[k].tw[i] = NaN
    THEN "nan" ELSE "finite"

\* loss.backward(): a gradient for every student parameter the forward
\* pass reached, added to what .grad holds.
Backward(g, l) ==
    [i \in DOMAIN g |->
        IF i \notin ForwardParams THEN g[i]
        ELSE IF l = "nan" \/ g[i] = "nan" THEN "nan" ELSE "raw"]

\* loss.backward() on student_mlp, which the forward pass ends in: a gradient
\* for every parameter of it, added to what .grad holds.
BackwardHead(g, l) ==
    [i \in DOMAIN g |-> IF l = "nan" \/ g[i] = "nan" THEN "nan" ELSE "raw"]

\* clip_grad_value_: clamps every gradient that exists; nan stays nan.
ClipGrad(g) == [i \in DOMAIN g |-> IF g[i] = "raw" THEN "clipped" ELSE g[i]]

\* optimizer.step(): the values AdamW may give parameter i.
StepVals(w, g) ==
    IF g = "none" THEN {w}
    ELSE IF g = "nan" \/ w = NaN THEN {NaN}
    ELSE FinVals

\* the optimizer built over the head's parameters as well.
HeadStepValsOptimized(w, g) ==
    IF g = "none" THEN {w} ELSE IF g = "nan" THEN {NaN} ELSE FinVals

\* optimizer.step() for a parameter of student_mlp: AdamW was built over
\* self.student.parameters() (line 130), which the head is not part of.
HeadStepVals(w, g) == {w}

\* momentum_synchronize for teacher_mlp: the zip pairs the parameters of
\* self.student and self.teacher, which the heads are not part of.
SyncHead(m, sh, th) == th

\* train() line 127-131: the call, up to the first epoch.
TrainBegin ==
    /\ pc = "ready"
    /\ epoch' = 1
    /\ pc' = "epoch"
    /\ UNCHANGED <<loader, fileVars, student, teacher, teacher_grad, queue, err,
                   it, sp, x, flat, loss, grad, steps, iterBy, stepq, log,
                   call, saves, chr, student_mlp, teacher_mlp, mlp_grad>>

\* the epoch loop over range(1, total_epoch): one epoch short.
EpochBeginOneShort ==
    /\ pc = "epoch"
    /\ IF epoch < TotalEpoch
       THEN /\ it' = 0
            /\ iterBy' = "train_epoch"
            /\ pc' = "batch"
       ELSE /\ pc' = "done"
            /\ UNCHANGED <<it, iterBy>>
    /\ UNCHANGED <<loader, fileVars, student, teacher, teacher_grad, queue, err,
                   epoch, sp, x, flat, loss, grad, steps, stepq, log, call,
                   saves, chr, student_mlp, teacher_mlp, mlp_grad>>

\* line 132-136: the epoch loop's test, and the epoch's iterator.
EpochBegin ==
    /\ pc = "epoch"
    /\ IF epoch <= TotalEpoch
       THEN /\ it' = 0
            /\ iterBy' = "train_epoch"
            /\ pc' = "batch"
       ELSE /\ pc' = "done"
            /\ UNCHANGED <<it, iterBy>>
    /\ UNCHANGED <<loader, fileVars, student, teacher, teacher_grad, queue, err,
                   epoch, sp, x, flat, loss, grad, steps, stepq, log, call,
                   saves, chr, student_mlp, teacher_mlp, mlp_grad>>

\* line 137-139: the epoch's iterator yields its next batch.
NextBatch ==
    /\ pc = "batch"
    /\ it < Len(loader)
    /\ it' = it + 1
    /\ steps' = steps + 1
    /\ stepq' = queue
    /\ log' = << >>
    /\ sp' = 1
    /\ pc' = "body"
    /\ UNCHANGED <<loader, fileVars, student, teacher, teacher_grad, queue, err,
                   epoch, x, flat, loss, grad, iterBy, call, saves, chr,
                   student_mlp, teacher_mlp, mlp_grad>>

\* line 140
StudentForward ==
    /\ At("student_forward")
    /\ x' = [b |-> it, sw |-> [i \in ForwardParams |-> student[i]]]
    /\ Advance("student_forward")
    /\ UNCHANGED <<loader, fileVars, student, teacher, teacher_grad, queue, err,
                   epoch, it, flat, loss, grad, steps, iterBy, stepq, call,
                   saves, chr, student_mlp, teacher_mlp, mlp_grad>>

\* line 141
TrainGetQueue ==
    /\ At("get_queue")
    /\ IF GetQueueFails(queue)
       THEN /\ err' = "RuntimeError"
            /\ pc' = "failed"
            /\ UNCHANGED <<flat, sp, log>>
       ELSE /\ flat' = GetQueue(queue)
            /\ Advance("get_queue")
            /\ UNCHANGED err
    /\ UNCHANGED <<loader, fileVars, student, teacher, teacher_grad, queue,
                   epoch, it, x, loss, grad, steps, iterBy, stepq, call,
                   saves, chr, student_mlp, teacher_mlp, mlp_grad>>

\* line 142-143
Criterion ==
    /\ At("criterion")
    /\ loss' = ChrLoss(x, loader[it], flat)
    /\ chr' = [y |-> loader[it], queue_y |-> flat.y,
               label_mask |-> LabelMask(loader[it], flat.y)]
    /\ Advance("criterion")
    /\ UNCHANGED <<loader, fileVars, student, teacher, teacher_grad, queue, err,
                   epoch, it, x, flat, grad, steps, iterBy, stepq, call,
                   saves, student_mlp, teacher_mlp, mlp_grad>>

\* line 144
ZeroGrad ==
    /\ At("zero_grad")
    /\ grad' = [i \in DOMAIN grad |-> "none"]
    /\ Advance("zero_grad")
    /\ UNCHANGED <<loader, fileVars, student, teacher, teacher_grad, queue, err,
                   epoch, it, x, flat, loss, steps, iterBy, stepq, call,
                   saves, chr, student_mlp, teacher_mlp, mlp_grad>>

\* line 145
LossBackward ==
    /\ At("backward")
    /\ grad' = Backward(grad, loss)
    /\ mlp_grad' = BackwardHead(mlp_grad, loss)
    /\ Advance("backward")
    /\ UNCHANGED <<loader, fileVars, student, teacher, teacher_grad, queue, err,
                   epoch, it, x, flat, loss, steps, iterBy, stepq, call,
                   saves, chr, student_mlp, teacher_mlp>>

\* line 146
ClipGradValue ==
    /\ At("clip_grad_value_")
    /\ grad' = ClipGrad(grad)
    /\ Advance("clip_grad_value_")
    /\ UNCHANGED <<loader, fileVars, student, teacher, teacher_grad, queue, err,
                   epoch, it, x, flat, loss, steps, iterBy, stepq, call,
                   saves, chr, student_mlp, teacher_mlp, mlp_grad>>

\* line 147-151
OptimizerStep ==
    /\ At("step")
    /\ student' \in [ParamIdx -> FinVals \cup {NaN}]
    /\ \A i \in ParamIdx : student'[i] \in StepVals(student[i], grad[i])
    /\ student_mlp' \in [DOMAIN student_mlp -> FinVals \cup {NaN}]
    /\ \A i \in DOMAIN student_mlp :
          student_mlp'[i] \in HeadStepVals(student_mlp[i], mlp_grad[i])
    /\ Advance("step")
    /\ UNCHANGED <<loader, fileVars, teacher, teacher_grad, queue, err,
                   epoch, it, x, flat, loss, grad, steps, iterBy, stepq,
                   call, saves, chr, teacher_mlp, mlp_grad>>

\* line 152
TrainEnqueue ==
    /\ At("enqueue")
    /\ queue' = Enqueue(queue, 1, teacher, steps)
    /\ iterBy' = "train_enqueue"
    /\ Advance("enqueue")
    /\ UNCHANGED <<loader, fileVars, student, teacher, teacher_grad, err,
                   epoch, it, x, flat, loss, grad, steps, stepq, call, saves,
                   chr, student_mlp, teacher_mlp, mlp_grad>>

\* the step's dequeue taking a whole initial queue_size of entries.
TrainDequeueQueueSize ==
    /\ At("dequeue")
    /\ queue' = Dequeue(queue, QueueSize)
    /\ IF DequeueFails(queue, QueueSize)
       THEN /\ err' = "IndexError"
            /\ pc' = "failed"
            /\ UNCHANGED <<sp, log>>
       ELSE /\ Advance("dequeue")
            /\ UNCHANGED err
    /\ UNCHANGED <<loader, fileVars, student, teacher, teacher_grad,
                   epoch, it, x, flat, loss, grad, steps, iterBy, stepq,
                   call, saves, chr, student_mlp, teacher_mlp, mlp_grad>>

\* line 153
TrainDequeue ==
    /\ At("dequeue")
    /\ queue' = Dequeue(queue, 1)
    /\ IF DequeueFails(queue, 1)
       THEN /\ err' = "IndexError"
            /\ pc' = "failed"
            /\ UNCHANGED <<sp, log>>
       ELSE /\ Advance("dequeue")
            /\ UNCHANGED err
    /\ UNCHANGED <<loader, fileVars, student, teacher, teacher_grad,
                   epoch, it, x, flat, loss, grad, steps, iterBy, stepq,
                   call, saves, chr, student_mlp, teacher_mlp, mlp_grad>>

\* momentum_synchronize with the two networks exchanged in the zip.
TrainSyncReversed ==
    /\ At("momentum_synchronize")
    /\ student' = SyncTeacher(DefaultM, teacher, student)
    /\ Advance("momentum_synchronize")
    /\ UNCHANGED <<loader, fileVars, teacher, teacher_grad, queue, err,
                   epoch, it, x, flat, loss, grad, steps, iterBy, stepq,
                   call, saves, chr, student_mlp, teacher_mlp, mlp_grad>>

\* line 154
TrainSync ==
    /\ At("momentum_synchronize")
    /\ teacher' = SyncTeacher(DefaultM, student, teacher)
    /\ teacher_grad' = SyncGrad(student, teacher_grad)
    /\ teacher_mlp' = SyncHead(DefaultM, student_mlp, teacher_mlp)
    /\ Advance("momentum_synchronize")
    /\ UNCHANGED <<loader, fileVars, student, queue, err,
                   epoch, it, x, flat, loss, grad, steps, iterBy, stepq,
                   call, saves, chr, student_mlp, mlp_grad>>

\* line 156-158: the iterator is exhausted; train_loss /= len(self.loader)
\* divides by zero for a loader without batches; else save_model().
EpochEnd ==
    /\ pc = "batch"
    /\ it = Len(loader)
    /\ IF Len(loader) = 0
       THEN /\ err' = "ZeroDivisionError"
            /\ pc' = "failed"
            /\ UNCHANGED <<fileVars, epoch, saves>>
       ELSE /\ student_pth' = student
            /\ teacher_pth' = teacher
            /\ saves' = saves + 1
            /\ epoch' = epoch + 1
            /\ pc' = "epoch"
            /\ UNCHANGED err
    /\ UNCHANGED <<loader, student, teacher, teacher_grad, queue,
                   it, sp, x, flat, loss, grad, steps, iterBy, stepq, log,
                   call, chr, student_mlp, teacher_mlp, mlp_grad>>


Next ==
    \/ CtorSync \/ CtorLoad \/ CtorHeads \/ CtorInitQueue
    \/ TrainBegin \/ EpochBegin \/ NextBatch
    \/ StudentForward \/ TrainGetQueue \/ Criterion \/ ZeroGrad \/ LossBackward
    \/ ClipGradValue \/ OptimizerStep \/ TrainEnqueue \/ TrainDequeue \/ TrainSync
    \/ EpochEnd

Spec == Init /\ [][Next]_vars

\* ------------------------------------------------ direct method calls
\* The constructed object's methods called one at a time, in any order; an
\* exception ends the run. flat holds what the last call returned.
Sizes == 0 .. MaxSize

\* enqueue(size), lines 91-106
CallEnqueue(size) ==
    /\ pc = "ready"
    /\ \A c \in Labels : Len(queue[c]) + Min(size, Len(loader)) <= MaxSize
    /\ call' = [op |-> "enqueue", arg |-> size]
    /\ queue' = Enqueue(queue, size, teacher, steps)
    /\ iterBy' = "enqueue"
    /\ flat' = NoFlat
    /\ UNCHANGED <<loader, fileVars, student, teacher, teacher_grad, pc, err,
                   epoch, it, sp, x, loss, grad, steps, stepq, log, saves,
                   chr, student_mlp, teacher_mlp, mlp_grad>>

\* dequeue(size), lines 108-111
CallDequeue(size) ==
    /\ pc = "ready"
    /\ call' = [op |-> "dequeue", arg |-> size]
    /\ queue' = Dequeue(queue, size)
    /\ IF DequeueFails(queue, size)
       THEN err' = "IndexError" /\ pc' = "failed"
       ELSE UNCHANGED <<err, pc>>
    /\ flat' = NoFlat
    /\ UNCHANGED <<loader, fileVars, student, teacher, teacher_grad,
                   epoch, it, sp, x, loss, grad, steps, stepq, log, iterBy,
                   saves, chr, student_mlp, teacher_mlp, mlp_grad>>

\* get_queue(), lines 118-125
CallGetQueue ==
    /\ pc = "ready"
    /\ call' = [op |-> "get_queue", arg |-> 0]
    /\ IF GetQueueFails(queue)
       THEN err' = "RuntimeError" /\ pc' = "failed" /\ UNCHANGED flat
       ELSE flat' = GetQueue(queue) /\ UNCHANGED <<err, pc>>
    /\ UNCHANGED <<loader, fileVars, student, teacher, teacher_grad, queue,
                   epoch, it, sp, x, loss, grad, steps, iterBy, stepq, log,
                   saves, chr, student_mlp, teacher_mlp, mlp_grad>>

\* momentum_synchronize(m), lines 113-116
CallSync(m) ==
    /\ pc = "ready"
    /\ call' = [op |-> "momentum_synchronize", arg |-> m]
    /\ teacher' = SyncTeacher(m, student, teacher)
    /\ teacher_grad' = SyncGrad(student, teacher_grad)
    /\ teacher_mlp' = SyncHead(m, student_mlp, teacher_mlp)
    /\ flat' = NoFlat
    /\ UNCHANGED <<loader, fileVars, student, queue, pc, err,
                   epoch, it, sp, x, loss, grad, steps, stepq, log, iterBy,
                   saves, chr, student_mlp, mlp_grad>>

\* initialize_queue(queue_size), lines 77-89
CallInitQueue(size) ==
    /\ pc = "ready"
    /\ call' = [op |-> "initialize_queue", arg |-> size]
    /\ queue' = Enqueue(EmptyQueue, size, teacher, steps)
    /\ iterBy' = "initialize_queue"
    /\ flat' = NoFlat
    /\ UNCHANGED <<loader, fileVars, student, teacher, teacher_grad, pc, err,
                   epoch, it, sp, x, loss, grad, steps, stepq, log, saves,
                   chr, student_mlp, teacher_mlp, mlp_grad>>

NextCalls ==
    \/ CtorSync \/ CtorLoad \/ CtorHeads \/ CtorInitQueue
    \/ \E size \in Sizes : CallEnqueue(size)
    \/ \E size \in Sizes : CallDequeue(size)
    \/ CallGetQueue
    \/ \E m \in Ms : CallSync(m)
    \/ \E size \in Sizes : CallInitQueue(size)

SpecCalls == Init /\ [][NextCalls]_vars

\* ------------------------------------------------ direct chr_loss calls
\* chr_loss called on label vectors of its caller's choice, with finite
\* embeddings, on an object built from an empty loader and no checkpoint.
LossLabels == 0 .. (LossClasses - 1)
LossYs == UNION {[1 .. n -> LossLabels] : n \in 1 .. MaxLossLen}

InitLoss ==
    /\ Init
    /\ loader = << >>
    /\ student_pth = NoFile /\ teacher_pth = NoFile
    /\ student = <<0, 0>> /\ teacher = <<0, 0>>

\* chr_loss(x, y, queue_x, queue_y), lines 164-179
CallChrLoss(y, queue_y) ==
    /\ pc = "ready"
    /\ call' = [op |-> "chr_loss", arg |-> 0]
    /\ chr' = [y |-> y, queue_y |-> queue_y, label_mask |-> LabelMask(y,
                   queue_y)]
    /\ loss' = ChrLoss([b |-> 0, sw |-> [i \in ForwardParams |-> student[i]]],
                       y, [x |-> << >>, y |-> queue_y])
    /\ UNCHANGED <<loader, fileVars, student, teacher, teacher_grad, queue,
                   pc, err, epoch, it, sp, x, flat, grad, steps, iterBy, stepq,
                   log, saves, student_mlp, teacher_mlp, mlp_grad>>

NextLoss ==
    \/ CtorSync \/ CtorLoad \/ CtorHeads \/ CtorInitQueue
    \/ \E y \in LossYs, queue_y \in LossYs : CallChrLoss(y, queue_y)

SpecLoss == InitLoss /\ [][NextLoss]_vars

\* ================================================================ claims
\* the embedding rows a class slot holds, over all its entries.
RowsIn(slot) == SumSeq([k \in 1 .. Len(slot) |-> Len(slot[k].rows)])

\* the samples labelled c among the first n batches of the loader.
SamplesOf(c, n) ==
    Cardinality({ki \in (1 .. Min(n, Len(loader))) \X (1 .. BatchSize) :
                    loader[ki[1]][ki[2]] = c})

\* no enqueue of the current training step is waiting for its dequeue.
Settled ==
    \/ pc \in {"ready", "epoch", "batch", "done"}
    \/ pc = "body" /\ "enqueue" \notin {log[k] : k \in DOMAIN log}
    \/ pc = "body" /\ "dequeue" \in {log[k] : k \in DOMAIN log}

\* the dequeue of the current training step has just returned.
AfterRotation ==
    pc = "body" /\ log # << >> /\ log[Len(log)] = "dequeue"

\* C1: constant queue depth. Outside the window between a training step's
\* enqueue and its dequeue, every class slot holds as many entries as at the
\* start of the step, which is the number initialize_queue read.
C1_ConstantDepth ==
    (Settled /\ queue # NoQueue) =>
        \A c \in Labels :
            /\ Len(queue[c]) = Min(QueueSize, Len(loader))
            /\ steps > 0 => Len(queue[c]) = Len(stepq[c])

C1_Witness ==
    /\ pc = "batch" /\ steps >= 2
    /\ \A c \in Labels : Len(queue[c]) = 2 /\ queue[c] # stepq[c]

\* C2: FIFO order. After a step's enqueue(1) and dequeue(1) a non-empty slot
\* has its length unchanged, has lost its oldest entry, starts with what was
\* its second-oldest (the new entry when it held one), and ends with the
\* entry the step enqueued.
C2_Fifo ==
    AfterRotation =>
        \A c \in Labels :
            stepq[c] # << >> =>
                /\ Len(queue[c]) = Len(stepq[c])
                /\ \A k \in 1 .. (Len(queue[c]) - 1) : queue[c][k] = stepq[c][k + 1]
                /\ queue[c][Len(queue[c])].at = steps
                /\ \A k \in 1 .. Len(stepq[c]) : stepq[c][k].at < steps

C2_Witness ==
    /\ AfterRotation
    /\ Len(stepq[0]) = 2
    /\ stepq[0][1] # stepq[0][2]
    /\ queue[0][1] = stepq[0][2]

\* initialize_queue has just returned: from the constructor (default size)
\* or from a direct call.
AfterInitQueue == pc = "ready" /\ call.op \in {"none", "initialize_queue"}

InitArg == IF call.op = "none" THEN QueueSize ELSE call.arg

\* C3 as stated: after initialize_queue(queueSize), len(queue[c]) is the
\* number of samples of class c in the first queueSize batches.
C3_LenIsSamples ==
    AfterInitQueue => \A c \in Labels : Len(queue[c]) = SamplesOf(c, InitArg)

\* C3 amended: after initialize_queue(queueSize) the embedding rows held by
\* queue[c] number the samples of class c in the first queueSize batches,
\* and len(queue[c]) is the number of those batches, one entry per batch.
C3_RowsAreSamples ==
    AfterInitQueue =>
        \A c \in Labels :
            /\ RowsIn(queue[c]) = SamplesOf(c, InitArg)
            /\ Len(queue[c]) = Min(InitArg, Len(loader))

C3_Witness ==
    /\ call = [op |-> "initialize_queue", arg |-> 1]
    /\ Len(loader) = 2
    /\ \E c \in Labels : SamplesOf(c, 1) = 0 /\ Len(queue[c]) = 1
    /\ \E c \in Labels : SamplesOf(c, 1) = 2 /\ RowsIn(queue[c]) = 2

\* C4: get_queue returns as many embeddings as the class slots hold rows and
\* as many labels, grouped by class in ascending order, class c once per row
\* of slot c, and a class without queued samples does not make it fail.
C4_Flatten ==
    call.op = "get_queue" =>
        /\ err = "none"
        /\ Len(flat.x) = SumSeq([k \in 1 .. NumClasses |-> RowsIn(queue[k - 1])])
        /\ Len(flat.y) = Len(flat.x)
        /\ \A j, k \in DOMAIN flat.y : j < k => flat.y[j] <= flat.y[k]
        /\ \A c \in Labels :
              Cardinality({k \in DOMAIN flat.y : flat.y[k] = c}) = RowsIn(queue[c])

\* C5: a dequeue(size) with size above the entries of some slot ends in a
\* failure, and a dequeue that returns has removed size entries everywhere.
C5_Underflow ==
    [][call'.op = "dequeue" =>
          /\ (\E c \in Labels : call'.arg > Len(queue[c]))
                => (err' = "IndexError" /\ pc' = "failed")
          /\ err' = "none" =>
                \A c \in Labels : Len(queue'[c]) = Len(queue[c]) - call'.arg
      ]_vars

C5_Witness ==
    /\ call.op = "dequeue" /\ call.arg = 2
    /\ err = "IndexError"

\* the calls of a training step in the order the claim gives them.
C6_Order ==
    <<"student_forward", "get_queue", "criterion", "zero_grad", "backward",
      "clip_grad_value_", "step", "enqueue", "dequeue", "momentum_synchronize">>

\* C6: a training step makes its ten calls in the stated order; the queue
\* flattened for its loss holds only entries of earlier steps, those the
\* previous step left; the entry it enqueues is computed by the teacher as
\* it is before the step's momentum update.
C6_StepOrder ==
    /\ pc = "body" => log = SubSeq(C6_Order, 1, Len(log)) /\ Len(log) < 10
    /\ (pc \in {"batch", "epoch", "done"} /\ steps > 0) => log = C6_Order
    /\ (pc = "body" /\ Len(log) >= 2) =>
          /\ \A k \in DOMAIN flat.x : flat.x[k].at < steps
          /\ Len(flat.x) = SumSeq([k \in 1 .. NumClasses |-> RowsIn(stepq[k - 1])])
    /\ (pc = "body" /\ Len(log) \in {8, 9}) =>
          \A c \in Labels :
              /\ queue[c][Len(queue[c])].at = steps
              /\ queue[c][Len(queue[c])].tw = [i \in ForwardParams |-> teacher[i]]

C6_Witness ==
    /\ pc = "batch" /\ steps >= 2
    /\ log = C6_Order
    /\ loss = "finite"
    /\ queue[0][Len(queue[0])].at = steps
    /\ queue[0][Len(queue[0])].tw[1] # teacher[1]

\* C7: only the epoch loop and initialize_queue start an iteration of the
\* data source; the per-step enqueue of train() does not.
C7_RestartOnlyPerEpoch ==
    iterBy \in {"none", "initialize_queue", "train_epoch"}

\* C8 as stated: once constructed, the teacher equals the student whatever
\* checkpoint files exist.
C8_TeacherIsStudent ==
    pc = "ready" => teacher = student

\* C8 amended: once constructed, the teacher equals the student when neither
\* checkpoint file exists; a network whose file exists holds the file's
\* parameters, and no teacher parameter tracks gradients.
C8_TeacherIsStudentUnlessLoaded ==
    pc = "ready" =>
        /\ (student_pth = NoFile /\ teacher_pth = NoFile) => teacher = student
        /\ student_pth # NoFile => student = student_pth
        /\ teacher_pth # NoFile => teacher = teacher_pth
        /\ \A i \in ParamIdx : ~teacher_grad[i]

C8_Witness ==
    /\ pc = "ready" /\ call.op = "none"
    /\ student_pth = NoFile /\ teacher_pth = NoFile
    /\ teacher = student

Finite(w) == \A i \in DOMAIN w : w[i] # NaN

\* C9 as stated: momentum_synchronize(m=0) makes the teacher the student
\* for all prior values and disables every teacher gradient flag.
C9_CopyAlways ==
    [][(call'.op = "momentum_synchronize" /\ call'.arg = 0) =>
          /\ teacher' = student'
          /\ \A i \in ParamIdx : ~teacher_grad'[i]
      ]_vars

\* C9 amended: momentum_synchronize(m=0) makes every teacher parameter whose
\* prior value is finite the corresponding student parameter, and disables
\* every teacher gradient flag.
C9_CopyWhenFinite ==
    [][(call'.op = "momentum_synchronize" /\ call'.arg = 0) =>
          /\ \A i \in ParamIdx : teacher[i] # NaN => teacher'[i] = student[i]
          /\ student' = student
          /\ \A i \in ParamIdx : ~teacher_grad'[i]
      ]_vars

C9_Witness ==
    /\ call = [op |-> "momentum_synchronize", arg |-> 0]
    /\ teacher_pth = <<2, 0>> /\ student_pth = NoFile
    /\ student = <<0, 0>> /\ teacher = student

\* C10 as stated: momentum_synchronize(m=1) leaves the teacher as it is
\* whatever the student holds.
C10_KeepAlways ==
    [][(call'.op = "momentum_synchronize" /\ call'.arg = 10) => teacher' = teacher]_vars

\* C10 amended: momentum_synchronize(m=1) leaves every teacher parameter
\* unchanged whose student parameter is finite.
C10_KeepWhenFinite ==
    [][(call'.op = "momentum_synchronize" /\ call'.arg = 10) =>
          \A i \in ParamIdx : student[i] # NaN => teacher'[i] = teacher[i]
      ]_vars

C10_Witness ==
    /\ call = [op |-> "momentum_synchronize", arg |-> 10]
    /\ Finite(student) /\ Finite(teacher)
    /\ teacher # student

\* train() is running: between its first epoch test and its return.
InTrain == pc \in {"epoch", "batch", "body"}

\* C11: exclusive writers during training. While train() runs, a student
\* parameter changes only in optimizer.step() and a teacher parameter only in
\* momentum_synchronize: the optimizer step leaves the teacher alone, and
\* momentum_synchronize, enqueue, dequeue and get_queue leave the student.
C11_ExclusiveWriters ==
    [][InTrain =>
          /\ student' # student => (At("step") /\ teacher' = teacher)
          /\ teacher' # teacher => (At("momentum_synchronize") /\ student' = student)
      ]_vars

C11_Witness ==
    /\ pc = "batch" /\ steps >= 1
    /\ Finite(student) /\ Finite(teacher)
    /\ x.sw[1] # student[1]
    /\ queue[0][Len(queue[0])].tw[1] # teacher[1]

\* train() with every enabled step eventually taken: the interpreter runs
\* the program on.
SpecFair == Spec /\ WF_vars(Next)

\* C12: termination. With a loader of at least one batch, train(total_epoch)
\* finishes; no step of it raises; at each epoch's end every batch of the
\* loader has been a training step exactly once per epoch run so far and
\* save_model has been called once per epoch; at the end, total_epoch epochs
\* have run.
C12_Terminates ==
    (Len(loader) > 0) =>
        /\ <>(pc = "done")
        /\ [](err = "none" /\ pc # "failed")
        /\ [](pc \in {"epoch", "done"} =>
                 /\ steps = (epoch - 1) * Len(loader)
                 /\ saves = epoch - 1)
        /\ [](pc \in {"batch", "body"} =>
                 /\ steps = (epoch - 1) * Len(loader) + it
                 /\ saves = epoch - 1
                 /\ (pc = "body" /\ sp > 1) => x.b = it)
        /\ [](pc = "done" => epoch = TotalEpoch + 1 /\ saves = TotalEpoch)

C12_Witness ==
    /\ pc = "done" /\ err = "none"
    /\ Len(loader) = 2
    /\ steps = 2 * TotalEpoch /\ saves = TotalEpoch
    /\ student_pth = student /\ teacher_pth = teacher

\* C13: in chr_loss the weight of the pair (batch sample i, queue entry j)
\* is the product of the two labels: zero whenever either label is class 0,
\* matching or not, and non-zero for two different non-zero classes; the
\* denominator of the loss is the sum of these weights.
C13_LabelProduct ==
    call.op = "chr_loss" =>
        /\ Len(chr.label_mask) = Len(chr.y)
        /\ \A i \in DOMAIN chr.y :
              /\ Len(chr.label_mask[i]) = Len(chr.queue_y)
              /\ \A j \in DOMAIN chr.queue_y :
                    /\ chr.label_mask[i][j] = chr.y[i] * chr.queue_y[j]
                    /\ (chr.y[i] = 0 \/ chr.queue_y[j] = 0)
                          => chr.label_mask[i][j] = 0
                    /\ (chr.y[i] # 0 /\ chr.queue_y[j] # 0)
                          => chr.label_mask[i][j] # 0
        /\ MaskSum(chr.y, chr.queue_y)
              = SumSeq([i \in DOMAIN chr.y |-> SumSeq(chr.label_mask[i])])

C13_Witness ==
    /\ call.op = "chr_loss"
    /\ chr.y = <<0, 1>> /\ chr.queue_y = <<0, 2>>
    /\ chr.label_mask = <<(<<0, 0>>), (<<0, 2>>)>>

\* sum(label_mask) of the last chr_loss call.
Den == SumSeq([i \in DOMAIN chr.y |-> SumSeq(chr.label_mask[i])])

AllZero(y) == \A i \in DOMAIN y : y[i] = 0

\* the last call the current training step has made.
LastCall == IF log = << >> THEN "none" ELSE log[Len(log)]

\* the current training step has just evaluated its loss.
LossTaken == pc = "body" /\ LastCall = "criterion"

\* C14: degenerate loss. The denominator of chr_loss is zero exactly when
\* every batch label or every flattened queue label is class 0; chr_loss then
\* raises nothing and returns a non-finite value, and the training step goes
\* on through backward, the optimizer step and the queue rotation to its end.
C14_Degenerate ==
    /\ [](chr # NoChr =>
             /\ Den = 0 <=> (AllZero(chr.y) \/ AllZero(chr.queue_y))
             /\ Den = 0 => (loss = "nan" /\ err = "none" /\ pc # "failed"))
    /\ [][(At("criterion") /\ MaskSum(loader[it], flat.y) = 0) =>
             (loss' = "nan" /\ At("zero_grad")')]_vars
    /\ \A op \in {"backward", "step", "enqueue", "dequeue"} :
          (LossTaken /\ Den = 0) ~> (pc = "body" /\ LastCall = op /\ Den = 0)
    /\ (LossTaken /\ Den = 0) ~> (pc = "batch" /\ log = TrainBody /\ Den = 0)

C14_Witness ==
    /\ pc = "body" /\ LastCall = "dequeue"
    /\ loss = "nan" /\ Den = 0
    /\ AllZero(chr.y) /\ ~AllZero(chr.queue_y)
    /\ x.sw[1] # NaN
    /\ \A k \in DOMAIN flat.x : flat.x[k].tw[1] # NaN

\* C15: no underflow during training. Every dequeue() of a training step
\* finds at least one entry in every class slot and returns, also when the
\* loader has fewer batches than the initial queue_size.
C15_NoUnderflow ==
    /\ At("dequeue") => \A c \in Labels : Len(queue[c]) >= 1
    /\ err # "IndexError"
    /\ (pc = "body" /\ LastCall = "dequeue") =>
          \A c \in Labels : Len(queue[c]) = Len(stepq[c])

C15_Witness ==
    /\ pc = "body" /\ LastCall = "dequeue"
    /\ err = "none"
    /\ Len(loader) = 1 /\ Len(loader) < QueueSize
    /\ \A c \in Labels : Len(queue[c]) = 1

\* C16: uniform slot length and key presence. After initialize_queue and
\* any enqueue and dequeue calls that returned, the queue has exactly the
\* keys 0 .. C-1 and all class slots hold the same number of entries.
C16_UniformSlots ==
    (pc = "ready" /\ err = "none") =>
        /\ DOMAIN queue = Labels
        /\ \A c, d \in Labels : Len(queue[c]) = Len(queue[d])

C16_Witness ==
    /\ pc = "ready" /\ err = "none"
    /\ call = [op |-> "dequeue", arg |-> 1]
    /\ Len(queue[0]) = 1 /\ Len(queue[1]) = 1
    /\ queue[0][1].rows = << >> /\ queue[1][1].rows # << >>

\* entry e holds the samples of class c of batch k of the loader, in order.
IsBatchEntry(e, k, c) ==
    /\ e.b = k
    /\ \A r \in DOMAIN e.rows : loader[k][e.rows[r]] = c
    /\ \A r1, r2 \in DOMAIN e.rows : r1 < r2 => e.rows[r1] < e.rows[r2]
    /\ Len(e.rows) = Cardinality({i \in 1 .. BatchSize : loader[k][i] = c})

\* slot new is slot old followed by one entry for each of the loader's
\* first n batches, in the loader's order.
AppendedFirst(old, new, n, c) ==
    /\ Len(new) = Len(old) + n
    /\ SubSeq(new, 1, Len(old)) = old
    /\ \A k \in 1 .. n : IsBatchEntry(new[Len(old) + k], k, c)

\* C17: enqueue(size) starts a new iteration of the loader and appends to
\* every class slot one entry for each of the first min(size, B) batches:
\* initialize_queue's enqueue(queue_size) builds depth min(queue_size, B),
\* which is B when B < queue_size, and the enqueue() of each training step
\* appends the loader's first batch, whatever batch the step is training on.
C17_EnqueueFromStart ==
    [][/\ pc = "initq" =>
             /\ iterBy' = "initialize_queue"
             /\ \A c \in Labels :
                   /\ AppendedFirst(<< >>, queue'[c], Min(QueueSize, Len(loader)), c)
                   /\ Len(loader) < QueueSize => Len(queue'[c]) = Len(loader)
       /\ At("enqueue") =>
             /\ iterBy' = "train_enqueue"
             /\ \A c \in Labels :
                   /\ AppendedFirst(queue[c], queue'[c], Min(1, Len(loader)), c)
                   /\ IsBatchEntry(queue'[c][Len(queue'[c])], 1, c)
       /\ (pc = "ready" /\ call'.op = "enqueue") =>
             /\ iterBy' = "enqueue"
             /\ \A c \in Labels :
                   AppendedFirst(queue[c], queue'[c],
                                 Min(call'.arg, Len(loader)), c)
      ]_vars

C17_Witness ==
    /\ pc = "body" /\ LastCall = "enqueue"
    /\ Len(loader) = 2 /\ it = 2
    /\ loader[1] = <<0, 0>> /\ loader[2] = <<1, 1>>
    /\ queue[0][Len(queue[0])].b = 1
    /\ queue[0][Len(queue[0])].rows = <<1, 2>>

\* the queue depth initialize_queue established.
Depth == Min(QueueSize, Len(loader))

\* the training steps whose queue rotation is complete.
Rotated ==
    IF pc = "body" /\ "dequeue" \notin {log[k] : k \in DOMAIN log}
    THEN steps - 1 ELSE steps

Max(a, b) == IF a > b THEN a ELSE b

\* C18: bounded staleness. With depth Q after initialization, the entry a
\* training step k enqueues is in the queue for the losses of steps k+1 to
\* k+Q and leaves with the dequeue of step k+Q: once n rotations are done a
\* slot holds, oldest first, the entries of steps n-Q+1 .. n (initial entries
\* in place of steps before the first), so after Q steps no initial entry is
\* left, no entry is more than Q steps old, and the queue a loss sees holds
\* only entries of the Q steps before it.
C18_BoundedStaleness ==
    /\ (Settled /\ queue # NoQueue /\ pc # "ready") =>
          \A c \in Labels :
              /\ \A j \in 1 .. Len(queue[c]) :
                    /\ queue[c][j].at = Max(0, Rotated - Depth + j)
                    /\ Rotated - queue[c][j].at <= Depth
              /\ Rotated >= Depth =>
                    \A j \in 1 .. Len(queue[c]) : queue[c][j].at >= 1
    /\ (pc = "body" /\ Len(log) >= 2) =>
          \A k \in DOMAIN flat.x :
              /\ flat.x[k].at >= Max(0, steps - Depth)
              /\ flat.x[k].at <= steps - 1

C18_Witness ==
    /\ pc = "body" /\ LastCall = "criterion"
    /\ Depth = 2 /\ steps = 4
    /\ queue[0][1].at = 2 /\ queue[0][2].at = 3
    /\ \E k \in DOMAIN flat.x : flat.x[k].at = 2

\* C19: the projection heads are frozen. While train() runs no call changes
\* a parameter of student_mlp or of teacher_mlp, although backward gives the
\* student head gradients, so each head keeps the values it was created
\* with and the teacher head is never made the student head.
C19_HeadsFrozen ==
    /\ [][(InTrain \/ pc = "ready") =>
             (student_mlp' = student_mlp /\ teacher_mlp' = teacher_mlp)]_vars
    /\ [](pc \in {"ready", "epoch", "batch", "body", "done"} =>
             /\ <<student_mlp, teacher_mlp>> \in FreshHeads
             /\ teacher_mlp # student_mlp)

C19_Witness ==
    /\ pc = "batch" /\ steps >= 2
    /\ mlp_grad = <<"raw">>
    /\ x.sw[1] # student[1]
    /\ queue[0][Len(queue[0])].tw[1] # teacher[1]
    /\ <<student_mlp, teacher_mlp>> \in FreshHeads

\* a dequeue call is failing with underflow in this step.
DequeueUnderflow == pc = "ready" /\ call'.op = "dequeue" /\ err' = "IndexError"

\* the lowest class whose slot holds fewer than n entries.
LowestShort(n) ==
    CHOOSE c \in Labels :
        /\ Len(queue[c]) < n
        /\ \A d \in Labels : d < c => Len(queue[d]) >= n

\* C20 as stated: a dequeue(size) that fails with underflow has removed no
\* entry; the queue after the call is the queue before it.
C20_UnchangedOnFailure ==
    [][DequeueUnderflow => queue' = queue]_vars

\* C20 amended: a dequeue(size) that fails with underflow has emptied the
\* slot of the lowest class holding fewer than size entries, has removed the
\* size oldest entries from the slot of every class below it, and has left
\* the slots of the classes above it as they were.
C20_PartialOnFailure ==
    [][DequeueUnderflow =>
          /\ \E c \in Labels : Len(queue[c]) < call'.arg
          /\ \A c \in Labels :
                queue'[c] =
                    IF c < LowestShort(call'.arg)
                    THEN SubSeq(queue[c], call'.arg + 1, Len(queue[c]))
                    ELSE IF c = LowestShort(call'.arg) THEN << >>
                    ELSE queue[c]
      ]_vars

C20_Witness ==
    /\ call = [op |-> "dequeue", arg |-> 2]
    /\ err = "IndexError" /\ pc = "failed"
    /\ queue[0] = << >> /\ Len(queue[1]) = 1

====
